---- MODULE Spec2Model ----
(***************************************************************************)
(* Model of Passenger's SpawnManager (ext/apache2/SpawnManager.h): the     *)
(* supervisor of the spawn server (the "helper"), its restart routine      *)
(* restartServer() and the request/response exchange of spawn().           *)
(*                                                                         *)
(* The constructor and every spawn() call are run by an actor: actor Ctor  *)
(* runs SpawnManager::SpawnManager, actors 1..NumThreads are the threads   *)
(* that call spawn().  Every blocking call or system call of the code is   *)
(* one step of its actor.  The operating system is modelled by the         *)
(* parent's descriptor table (fdTable), the helper processes (procs) and   *)
(* the messages travelling on the socket pair (wire).                      *)
(***************************************************************************)
EXTENDS Integers, Sequences, FiniteSets, TLC

\* ---------------------------------------------------------------- bounds
NumThreads == 2       \* threads calling spawn() concurrently
MaxFd == 7            \* the parent's descriptor table holds fds 3..MaxFd
MaxHelpers == 2       \* process ids the system can give to a helper
MaxFieldLen == 2      \* longest first field of a helper response
MaxPieces == 4        \* pieces an HTTP response fed to the extractor is made of

\* ------------------------------------------------------------- constants
NoPid == 0            \* pid_t pid == 0: no spawn server is tracked
ForkError == -1       \* fork() returned -1
NoFd == -1            \* a MessageChannel that is not bound to a descriptor
NullHandle == 0       \* FILE *logFileHandle = NULL
Ctor == 0             \* the actor that runs the constructor
NoThread == -1        \* the mutex is free
STDIN_FILENO == 0
STDOUT_FILENO == 1
STDERR_FILENO == 2

Threads == 1..NumThreads
Actors == Threads \cup {Ctor}
FdNums == 3..MaxFd
StdFds == {STDIN_FILENO, STDOUT_FILENO, STDERR_FILENO}
AllFds == StdFds \cup FdNums      \* 0 .. sysconf(_SC_OPEN_MAX) - 1
HelperPids == 1..MaxHelpers

LogFiles == {"", "/log"}                       \* constructor argument logFile
Roots == {"/app1", "/app2"}                    \* appRoot arguments
UserGroups == {<<"", "">>, <<"www", "web">>}   \* (user, group) arguments
Chars == {"4", "x"}                            \* bytes of a response field
ListenSockets == {9}                           \* descriptors a helper passes
GarbagePids == {0, 44}                         \* what reading no field yields

VARIABLES
    pc,                  \* position of every actor
    lock,                \* mutex lock: the thread that holds it, or NoThread
    pid,                 \* pid_t pid
    channel,             \* MessageChannel channel: its descriptor, or NoFd
    serverNeedsRestart,  \* bool serverNeedsRestart
    logFile,             \* string logFile
    fdTable,             \* the parent's open descriptors
    procs,               \* the helper processes
    wire,                \* requests and responses travelling on the channel
    loc,                 \* locals of restartServer(): fds[2], logFileHandle
    call,                \* arguments of the running spawn() call
    rx,                  \* locals of spawn(): parsed pid, pending descriptor
    result,              \* what the last call of the actor returned or threw
    h,                   \* per call: what happened during it
    ks,                  \* progress of "helper killed between two requests"
    aborted,             \* the process has crashed
    buffer,              \* HttpStatusExtractor: string buffer
    searchStart,         \* HttpStatusExtractor: unsigned int searchStart
    fullHeaderReceived,  \* HttpStatusExtractor: bool fullHeaderReceived
    statusLine,          \* HttpStatusExtractor: string statusLine
    response,            \* the response data that is being fed
    fedLen,              \* how many bytes of it have been passed to feed()
    feedSplit,           \* the last feed() found a CR LF CR LF begun in an earlier chunk
    feedRet,             \* what the last feed() returned (FALSE before it)
    fedAfterTrue         \* feed() was called again after it returned true

spawnVars == <<pc, lock, pid, channel, serverNeedsRestart, logFile, fdTable, procs,
               wire, loc, call, rx, result, h, ks, aborted>>
httpVars == <<buffer, searchStart, fullHeaderReceived, statusLine, response, fedLen,
              feedSplit, feedRet, fedAfterTrue>>
vars == <<spawnVars, httpVars>>

\* ----------------------------------------------------------- pure helpers
RECURSIVE SeqsUpTo(_, _)
SeqsUpTo(S, n) ==
    IF n = 0 THEN {<<>>}
    ELSE LET shorter == SeqsUpTo(S, n - 1)
         IN  shorter \cup {Append(s, c) : s \in shorter, c \in S}

Fields == SeqsUpTo(Chars, MaxFieldLen)

IsDigit(c) == c \in {"0", "1", "2", "3", "4", "5", "6", "7", "8", "9"}

DigitVal(c) ==
    CASE c = "0" -> 0 [] c = "1" -> 1 [] c = "2" -> 2 [] c = "3" -> 3
      [] c = "4" -> 4 [] c = "5" -> 5 [] c = "6" -> 6 [] c = "7" -> 7
      [] c = "8" -> 8 [] c = "9" -> 9

\* atoi() on a string without sign or leading blanks: the value of the
\* longest prefix of decimal digits, 0 when there is none.
RECURSIVE AtoiFrom(_, _, _)
AtoiFrom(s, i, acc) ==
    IF i > Len(s) \/ ~IsDigit(s[i]) THEN acc
    ELSE AtoiFrom(s, i + 1, acc * 10 + DigitVal(s[i]))

Atoi(s) == AtoiFrom(s, 1, 0)

\* A decimal process id: one or more digits and nothing else.
IsDecimal(s) == Len(s) > 0 /\ \A i \in 1..Len(s) : IsDigit(s[i])

Responses == [fields : {<<>>} \cup {<<f>> : f \in Fields},
              fd : ListenSockets \cup {NoFd}]

\* ---------------------------------------------------- results and errors
NoResult == [kind |-> "none", cause |-> "none", appRoot |-> "", pid |-> 0, fd |-> NoFd]
Exception(k) == [NoResult EXCEPT !.kind = k]
Application(appRoot, p, listenSocket) ==
    [kind |-> "handle", cause |-> "none", appRoot |-> appRoot, pid |-> p, fd |-> listenSocket]

\* RestartException(copy): the wrapper around the error of restartServer().
RestartException(e) == [NoResult EXCEPT !.kind = "RestartException", !.cause = e.kind]

\* A handler that lets the error of restartServer() through unwrapped.
SpawnCatchRestart_plain(e) == e

\* spawn(), lines 235-243: both handlers wrap what restartServer() threw.
SpawnCatchRestart(e) == RestartException(e)

\* A constructor that wraps the error the way spawn() does.
CtorPropagate_wrapped(e) == RestartException(e)

\* The constructor has no handler: what restartServer() throws leaves it.
CtorPropagate(e) == e

\* A handler that wraps what the exchange threw.
SpawnRethrow_wrapped(e) == RestartException(e)

\* spawn(), lines 254-258: the handler rethrows what the exchange threw.
SpawnRethrow(e) == e

NoHistory == [entryNR |-> FALSE, stage |-> 0, restart |-> "no", cause |-> "none",
              forked |-> FALSE, wrote |-> FALSE, fail |-> "none",
              resp |-> "none", opened |-> {}, tracked |-> FALSE,
              respFor |-> NoThread, respFields |-> <<>>, respFd |-> NoFd,
              execFailed |-> FALSE, entryPid |-> NoPid, entryChan |-> NoFd]

NoLocals == [fds0 |-> NoFd, fds1 |-> NoFd, logH |-> NullHandle]
NoCall == [appRoot |-> "", user |-> "", group |-> ""]
NoRx == [pid |-> 0, fd |-> NoFd]
\* A descriptor table in which nothing is open.
NoTable == [f \in AllFds |-> NoFd]
NoProc == [state |-> "free", peer |-> NoFd, image |-> "none", table |-> NoTable,
           sockIn |-> NoFd, logIn |-> NullHandle]
EmptyWire == [req |-> <<>>, resp |-> <<>>, failed |-> FALSE]

\* ------------------------------------------------------ operating system
FreeFds == {f \in FdNums : fdTable[f] = "free"}
LowestFree(S) == CHOOSE f \in S : \A g \in S : f <= g

\* close(fd) in the parent: the slot becomes free; a helper whose socket
\* peer this was sees end of file from now on.
ClosedAll(table, F) == [f \in FdNums |-> IF f \in F THEN "free" ELSE table[f]]
PeersClosed(ps, F) ==
    [p \in HelperPids |-> IF ps[p].peer \in F THEN [ps[p] EXCEPT !.peer = NoFd] ELSE ps[p]]

\* The helper at the other end of descriptor c is alive.
PeerAlive(c) == \E p \in HelperPids : procs[p].state = "running" /\ procs[p].peer = c

\* ---------------------------------------------------- HttpStatusExtractor
\* Bytes are written as one-character strings; CR and LF stand for the
\* bytes 0x0D and 0x0A.
CR == "CR"
LF == "LF"
CRLF == <<CR, LF>>
HeaderEnd == <<CR, LF, CR, LF>>
\* static const char statusHeaderName[] = "Status: ";
statusHeaderName == <<"S", "t", "a", "t", "u", "s", ":", " ">>
\* statusLine = "200 OK\r\n" of the constructor.
DefaultStatusLine == <<"2", "0", "0", " ", "O", "K", CR, LF>>

\* httpStatusCodesMap, restricted to the codes that can be written with the
\* digits of the model's responses.
httpStatusCodesMap ==
    [code \in {<<"4", "0", "0">>, <<"4", "0", "4">>} |->
        IF code = <<"4", "0", "0">>
        THEN <<"B", "a", "d", " ", "R", "e", "q", "u", "e", "s", "t">>
        ELSE <<"N", "o", "t", " ", "F", "o", "u", "n", "d">>]

\* string::size_type arithmetic is modulo a power of two far above any
\* buffer length; string::npos is its largest value.
SizeMod == 1073741824
Npos == SizeMod - 1

\* The pattern occurs in the string at the 0-based position i.
MatchAt(str, pat, i) ==
    /\ i >= 0
    /\ i + Len(pat) <= Len(str)
    /\ \A j \in 1..Len(pat) : str[i + j] = pat[j]

\* string::find(pat, from): the first position >= from where pat occurs,
\* or npos.
Find(str, pat, from) ==
    LET hits == {i \in from..(Len(str) - Len(pat)) : MatchAt(str, pat, i)}
    IN  IF hits = {} THEN Npos ELSE CHOOSE i \in hits : \A j \in hits : i <= j

\* string::substr(pos, n) for pos <= size(): at most n bytes from pos.
Substr(str, pos, n) ==
    LET last == IF pos + n < Len(str) THEN pos + n ELSE Len(str)
    IN  SubSeq(str, pos + 1, last)

\* Lines 118-131: where the status value starts and where its line ends.
StatusPositions(buf) ==
    IF Len(buf) > Len(statusHeaderName) /\ MatchAt(buf, statusHeaderName, 0)
    THEN [start |-> Len(statusHeaderName),
          newline |-> (Find(buf, CRLF, 0) + 2) % SizeMod]
    ELSE LET found == Find(buf, CRLF \o statusHeaderName, 0)
         IN  IF found # Npos
             THEN [start |-> found + 2 + Len(statusHeaderName),
                   newline |-> (Find(buf, CRLF, found + 2 + Len(statusHeaderName)) + 2)
                                  % SizeMod]
             ELSE [start |-> Npos, newline |-> 0]

\* Lines 142-150: a known status code gets its reason phrase.
WithReasonPhrase(line) ==
    LET code == Substr(line, 0, 3)
    IN  IF code \in DOMAIN httpStatusCodesMap
        THEN code \o <<" ">> \o httpStatusCodesMap[code] \o CRLF
        ELSE line

\* extractStatusLine(): the new value of statusLine.
ExtractStatusLine(buf, old) ==
    LET pos == StatusPositions(buf)
    IN  IF pos.start # Npos
        THEN WithReasonPhrase(
                 Substr(buf, pos.start, (pos.newline - pos.start + SizeMod) % SizeMod))
        ELSE old

\* The loop of lines 193-202 without "- 3" in its bound and without the
\* size test: it never looks back into what an earlier call has seen.
RECURSIVE Scan_noOverlap(_, _)
Scan_noOverlap(buf, ss) ==
    IF ss < Len(buf)
    THEN IF MatchAt(buf, HeaderEnd, ss)
         THEN [found |-> TRUE, searchStart |-> ss]
         ELSE Scan_noOverlap(buf, ss + 1)
    ELSE [found |-> FALSE, searchStart |-> ss]

\* The loop of lines 193-202: whether CR LF CR LF is found, and the value
\* searchStart is left with.
RECURSIVE Scan(_, _)
Scan(buf, ss) ==
    IF Len(buf) >= 3 /\ ss < Len(buf) - 3
    THEN IF MatchAt(buf, HeaderEnd, ss)
         THEN [found |-> TRUE, searchStart |-> ss]
         ELSE Scan(buf, ss + 1)
    ELSE [found |-> FALSE, searchStart |-> ss]

\* HttpStatusExtractor(): lines 160-164.
HttpFresh ==
    /\ buffer = <<>>
    /\ searchStart = 0
    /\ fullHeaderReceived = FALSE
    /\ statusLine = DefaultStatusLine
    /\ fedLen = 0
    /\ feedSplit = FALSE
    /\ feedRet = FALSE
    /\ fedAfterTrue = FALSE

\* The responses that are fed: up to MaxPieces pieces, each a line end, a
\* lone CR, a byte of other data, or a status header with its code.
Pieces == {CRLF, <<CR>>, <<"X">>, statusHeaderName \o <<"4", "0", "4">>}

RECURSIVE Flatten(_)
Flatten(ps) == IF ps = <<>> THEN <<>> ELSE Head(ps) \o Flatten(Tail(ps))

HttpResponses == {Flatten(ps) : ps \in SeqsUpTo(Pieces, MaxPieces)}

\* feed(data, size) with the next k bytes of the response.
Feed(k) ==
    /\ fedLen + k <= Len(response)
    /\ fedLen' = fedLen + k
    /\ IF fullHeaderReceived
       THEN /\ feedRet' = TRUE
            /\ fedAfterTrue' = TRUE
            /\ feedSplit' = FALSE
            /\ UNCHANGED <<buffer, searchStart, fullHeaderReceived, statusLine>>
       ELSE LET buf == buffer \o SubSeq(response, fedLen + 1, fedLen + k)
                scan == Scan(buf, searchStart)
            IN  /\ buffer' = buf
                /\ searchStart' = scan.searchStart
                /\ fullHeaderReceived' = scan.found
                /\ statusLine' = IF scan.found
                                 THEN ExtractStatusLine(buf, statusLine)
                                 ELSE statusLine
                /\ feedRet' = scan.found
                /\ feedSplit' = (scan.found /\ scan.searchStart < Len(buffer))
                /\ UNCHANGED fedAfterTrue
    /\ UNCHANGED response

\* ------------------------------------------------------------------ Init
Init ==
    /\ pc = [a \in Actors |-> IF a = Ctor THEN "rs_begin" ELSE "idle"]
    /\ lock = NoThread
    /\ pid = NoPid
    /\ channel = NoFd
    /\ serverNeedsRestart \in BOOLEAN
    /\ logFile \in LogFiles
    /\ fdTable = [f \in FdNums |-> "free"]
    /\ procs = [p \in HelperPids |-> NoProc]
    /\ wire = EmptyWire
    /\ loc = [a \in Actors |-> NoLocals]
    /\ call = [t \in Threads |-> NoCall]
    /\ rx = [t \in Threads |-> NoRx]
    /\ result = [a \in Actors |-> NoResult]
    /\ h = [a \in Actors |-> NoHistory]
    /\ ks = "none"
    /\ aborted = FALSE
    /\ HttpFresh
    /\ response = <<>>

\* ---------------------------------------------------- MessageChannel
\* MessageChannel::close(): releases the local endpoint; a no-op on a
\* channel that is not bound.
ChannelClose ==
    /\ channel' = NoFd
    /\ fdTable' = ClosedAll(fdTable, {channel} \ {NoFd})
    /\ procs' = PeersClosed(procs, {channel} \ {NoFd})

\* -------------------------------------------------------- restartServer()
\* How restartServer() leaves by an exception: into the handlers of spawn(),
\* or out of the constructor.
ThrowFromRestart(a, e, why) ==
    /\ pc' = [pc EXCEPT ![a] = IF a = Ctor THEN "ctor_failed" ELSE "unlock"]
    /\ result' = [result EXCEPT ![a] = IF a = Ctor THEN CtorPropagate(e)
                                                  ELSE SpawnCatchRestart(e)]
    /\ h' = [h EXCEPT ![a].restart = "failed", ![a].cause = why]

\* Lines 75-76: a tracked helper has its channel closed first.
RestartBegin(a) ==
    /\ pc[a] = "rs_begin"
    /\ IF pid # NoPid
       THEN /\ ChannelClose
            /\ pc' = [pc EXCEPT ![a] = "rs_wait"]
       ELSE /\ pc' = [pc EXCEPT ![a] = "rs_socketpair"]
            /\ UNCHANGED <<channel, fdTable, procs>>
    /\ h' = [h EXCEPT ![a].tracked = (pid # NoPid)]
    /\ UNCHANGED <<lock, pid, serverNeedsRestart, logFile, wire, loc, call, rx,
                   result, ks, aborted>>

\* pid = 0 without the waitpid() before it: the helper is not waited for.
RestartWait_noWait(a) ==
    /\ pc[a] = "rs_wait"
    /\ pid' = NoPid
    /\ pc' = [pc EXCEPT ![a] = "rs_socketpair"]
    /\ UNCHANGED <<lock, channel, serverNeedsRestart, logFile, fdTable, procs, wire,
                   loc, call, rx, result, h, ks, aborted>>

\* waitpid() without the pid = 0 that follows it.
RestartWait_keepPid(a) ==
    /\ pc[a] = "rs_wait"
    /\ pid \in HelperPids => procs[pid].state # "running"
    /\ procs' = [p \in HelperPids |-> IF p = pid THEN NoProc ELSE procs[p]]
    /\ pc' = [pc EXCEPT ![a] = "rs_socketpair"]
    /\ UNCHANGED <<lock, pid, channel, serverNeedsRestart, logFile, fdTable, wire, loc,
                   call, rx, result, h, ks, aborted>>

\* Lines 78-79: waitpid(pid, NULL, 0) blocks until the helper has terminated
\* and reaps it; then pid = 0.
RestartWait(a) ==
    /\ pc[a] = "rs_wait"
    /\ pid \in HelperPids => procs[pid].state # "running"
    /\ procs' = [p \in HelperPids |-> IF p = pid THEN NoProc ELSE procs[p]]
    /\ pid' = NoPid
    /\ pc' = [pc EXCEPT ![a] = "rs_socketpair"]
    /\ UNCHANGED <<lock, channel, serverNeedsRestart, logFile, fdTable, wire, loc,
                   call, rx, result, h, ks, aborted>>

\* Lines 85-86: serverNeedsRestart = true; socketpair() succeeds and takes
\* the two lowest free descriptors.
SocketpairOk(a) ==
    /\ pc[a] = "rs_socketpair"
    /\ Cardinality(FreeFds) >= 2
    /\ LET f0 == LowestFree(FreeFds)
           f1 == LowestFree(FreeFds \ {f0})
       IN  /\ loc' = [loc EXCEPT ![a] = [fds0 |-> f0, fds1 |-> f1, logH |-> NullHandle]]
           /\ fdTable' = [fdTable EXCEPT ![f0] = "sock0", ![f1] = "sock1"]
           /\ h' = [h EXCEPT ![a].opened = {f0, f1}]
    /\ serverNeedsRestart' = TRUE
    /\ pc' = [pc EXCEPT ![a] = IF logFile # "" THEN "rs_log" ELSE "rs_fork"]
    /\ UNCHANGED <<lock, pid, channel, logFile, procs, wire, call, rx, result,
                   ks, aborted>>

\* Line 85 with the wrong value: serverNeedsRestart = false.
SocketpairFailed_flagFalse(a) ==
    /\ pc[a] = "rs_socketpair"
    /\ serverNeedsRestart' = FALSE
    /\ ThrowFromRestart(a, Exception("SystemException"), "socketpair")
    /\ UNCHANGED <<lock, pid, channel, logFile, fdTable, procs, wire, loc, call,
                   rx, ks, aborted>>

\* Lines 85-88: serverNeedsRestart = true; socketpair() fails.
SocketpairFailed(a) ==
    /\ pc[a] = "rs_socketpair"
    /\ serverNeedsRestart' = TRUE
    /\ ThrowFromRestart(a, Exception("SystemException"), "socketpair")
    /\ UNCHANGED <<lock, pid, channel, logFile, fdTable, procs, wire, loc, call,
                   rx, ks, aborted>>

\* Lines 89-90: fopen(logFile, "a") succeeds.
OpenLogOk(a) ==
    /\ pc[a] = "rs_log"
    /\ FreeFds # {}
    /\ LET f == LowestFree(FreeFds)
       IN  /\ loc' = [loc EXCEPT ![a].logH = f]
           /\ fdTable' = [fdTable EXCEPT ![f] = "log"]
           /\ h' = [h EXCEPT ![a].opened = @ \cup {f}]
    /\ pc' = [pc EXCEPT ![a] = "rs_fork"]
    /\ UNCHANGED <<lock, pid, channel, serverNeedsRestart, logFile, procs, wire,
                   call, rx, result, ks, aborted>>

\* fopen() returned NULL and the result is not looked at: on to fork().
OpenLogFailed_ignored(a) ==
    /\ pc[a] = "rs_log"
    /\ h' = [h EXCEPT ![a].cause = "log"]
    /\ pc' = [pc EXCEPT ![a] = "rs_fork"]
    /\ UNCHANGED <<lock, pid, channel, serverNeedsRestart, logFile, fdTable, procs,
                   wire, loc, call, rx, result, ks, aborted>>

\* Lines 91-96: fopen() returned NULL: IOException, thrown as things are.
OpenLogFailed(a) ==
    /\ pc[a] = "rs_log"
    /\ ThrowFromRestart(a, Exception("IOException"), "log")
    /\ UNCHANGED <<lock, pid, channel, serverNeedsRestart, logFile, fdTable, procs,
                   wire, loc, call, rx, ks, aborted>>

\* The descriptors the parent closes after a successful fork: fds[1], and
\* the log file handle when a log file is configured (lines 135-138).
ParentClosesAfterFork(a) ==
    {loc[a].fds1} \cup (IF logFile # "" THEN {loc[a].logH} ELSE {})

\* The descriptor table fork() hands to the child: the three standard
\* streams and whatever the parent has open.  An open slot holds the number
\* of the parent's descriptor it is a copy of.
ParentTable ==
    [f \in AllFds |-> IF f \in StdFds THEN f
                      ELSE IF fdTable[f] = "free" THEN NoFd ELSE f]

\* dup2(oldfd, newfd) and close(fd) on a descriptor table.
Dup2(tb, oldfd, newfd) ==
    IF oldfd \in AllFds /\ tb[oldfd] # NoFd THEN [tb EXCEPT ![newfd] = tb[oldfd]] ELSE tb
Close(tb, fd) == IF fd \in AllFds THEN [tb EXCEPT ![fd] = NoFd] ELSE tb

\* Lines 113-118: every descriptor but the three standard ones is closed.
CloseAllOthers(tb) == [f \in AllFds |-> IF f \in StdFds THEN tb[f] ELSE NoFd]

\* The child branch without the loop of lines 113-118.
ChildTableAtExec_noCloseLoop(a) ==
    LET t0 == ParentTable
        t1 == IF logFile # ""
              THEN Close(Dup2(t0, loc[a].logH, STDERR_FILENO), loc[a].logH)
              ELSE t0
        t2 == Dup2(t1, STDERR_FILENO, STDOUT_FILENO)
        t3 == Dup2(t2, loc[a].fds1, STDIN_FILENO)
    IN  Close(Close(t3, loc[a].fds0), loc[a].fds1)

\* Lines 100-118: the child's descriptor table when it calls execlp():
\* stderr rebound to the log file and the handle closed, stdout a copy of
\* stderr, stdin rebound to fds[1], fds[0] and fds[1] closed, the rest closed.
ChildTableAtExec(a) ==
    LET t0 == ParentTable
        t1 == IF logFile # ""
              THEN Close(Dup2(t0, loc[a].logH, STDERR_FILENO), loc[a].logH)
              ELSE t0
        t2 == Dup2(t1, STDERR_FILENO, STDOUT_FILENO)
        t3 == Dup2(t2, loc[a].fds1, STDIN_FILENO)
        t4 == Close(Close(t3, loc[a].fds0), loc[a].fds1)
    IN  CloseAllOthers(t4)

\* Lines 99, 134-141: fork() succeeds; the parent records the child, closes
\* its copies, binds the channel to fds[0] and clears serverNeedsRestart.
\* The child (lines 100-120) has fds[1] as its standard input; execlp()
\* gives it the helper's image, or fails (lines 121-124).
ForkOk(a) ==
    /\ pc[a] = "rs_fork"
    /\ \E p \in HelperPids, img \in {"helper", "failed"} :
         /\ procs[p].state = "free"
         /\ pid' = p
         /\ procs' = [PeersClosed(procs, ParentClosesAfterFork(a))
                         EXCEPT ![p] = [state |-> "running", peer |-> loc[a].fds0,
                                        image |-> img, table |-> ChildTableAtExec(a),
                                        sockIn |-> loc[a].fds1, logIn |-> loc[a].logH]]
         /\ h' = [h EXCEPT ![a].restart = "ok", ![a].forked = TRUE,
                           ![a].execFailed = (img = "failed")]
    /\ fdTable' = ClosedAll(fdTable, ParentClosesAfterFork(a))
    /\ channel' = loc[a].fds0
    /\ wire' = EmptyWire
    /\ serverNeedsRestart' = FALSE
    /\ pc' = [pc EXCEPT ![a] = IF a = Ctor THEN "constructed" ELSE "write"]
    /\ UNCHANGED <<lock, logFile, loc, call, rx, result, ks, aborted>>

\* The fork-failure branch without its pid = 0: pid stays -1.
ForkFailed_keepPid(a) ==
    /\ pc[a] = "rs_fork"
    /\ fdTable' = ClosedAll(fdTable, {loc[a].fds0, loc[a].fds1}
                             \cup (IF loc[a].logH # NullHandle THEN {loc[a].logH} ELSE {}))
    /\ pid' = ForkError
    /\ ThrowFromRestart(a, Exception("SystemException"), "fork")
    /\ UNCHANGED <<lock, channel, serverNeedsRestart, logFile, procs, wire, loc,
                   call, rx, ks, aborted>>

\* Lines 125-133: fork() returned -1: both socket descriptors and the log
\* file handle are closed, pid = 0, SystemException.
ForkFailed(a) ==
    /\ pc[a] = "rs_fork"
    /\ fdTable' = ClosedAll(fdTable, {loc[a].fds0, loc[a].fds1}
                             \cup (IF loc[a].logH # NullHandle THEN {loc[a].logH} ELSE {}))
    /\ pid' = NoPid
    /\ ThrowFromRestart(a, Exception("SystemException"), "fork")
    /\ UNCHANGED <<lock, channel, serverNeedsRestart, logFile, procs, wire, loc,
                   call, rx, ks, aborted>>

\* ---------------------------------------------------------------- spawn()
\* A lock that never makes anybody wait.
LockFree_always == TRUE

\* mutex::scoped_lock: the lock can be taken when nobody holds it.
LockFree == lock = NoThread

\* A spawn() that never looks at serverNeedsRestart.
MustRestart_never == FALSE

\* Line 229: if (serverNeedsRestart).
MustRestart == serverNeedsRestart

\* A thread calls spawn() and arrives at the lock.
Call(t) ==
    /\ pc[t] = "idle"
    /\ pc[Ctor] = "constructed"
    /\ pc' = [pc EXCEPT ![t] = "lock"]
    /\ UNCHANGED <<lock, pid, channel, serverNeedsRestart, logFile, fdTable, procs,
                   wire, loc, call, rx, result, h, ks, aborted>>

\* Lines 225-229: the lock is taken and serverNeedsRestart is tested.  The
\* arguments appRoot, user and group of the call are first looked at after
\* this point, so they are drawn here.
Acquire(t) ==
    /\ pc[t] = "lock"
    /\ LockFree
    /\ lock' = t
    /\ \E r \in Roots, ug \in UserGroups :
         call' = [call EXCEPT ![t] = [appRoot |-> r, user |-> ug[1], group |-> ug[2]]]
    /\ h' = [h EXCEPT ![t] = [NoHistory EXCEPT
                !.entryNR = serverNeedsRestart,
                !.stage = IF ks = "killed" THEN 1 ELSE IF ks = "failed" THEN 2 ELSE 0,
                !.entryPid = pid,
                !.entryChan = channel]]
    /\ ks' = "busy"
    /\ pc' = [pc EXCEPT ![t] = IF MustRestart THEN "rs_begin" ELSE "write"]
    /\ UNCHANGED <<pid, channel, serverNeedsRestart, logFile, fdTable, procs, wire,
                   loc, rx, result, aborted>>

\* A handler that restarts the server and sends again instead of rethrowing.
CatchExchange_retry(t, e, why) ==
    /\ serverNeedsRestart' = TRUE
    /\ result' = result
    /\ h' = [h EXCEPT ![t].fail = why]
    /\ pc' = [pc EXCEPT ![t] = "rs_begin"]

\* A handler that rethrows without setting serverNeedsRestart.
CatchExchange_noFlag(t, e, why) ==
    /\ UNCHANGED serverNeedsRestart
    /\ result' = [result EXCEPT ![t] = SpawnRethrow(e)]
    /\ h' = [h EXCEPT ![t].fail = why]
    /\ pc' = [pc EXCEPT ![t] = "unlock"]

\* Lines 254-258: the handler of the exchange sets serverNeedsRestart and
\* rethrows.
CatchExchange(t, e, why) ==
    /\ serverNeedsRestart' = TRUE
    /\ result' = [result EXCEPT ![t] = SpawnRethrow(e)]
    /\ h' = [h EXCEPT ![t].fail = why]
    /\ pc' = [pc EXCEPT ![t] = "unlock"]

\* Line 247: channel.write("spawn_application", appRoot, user, group).
WriteOk(t) ==
    /\ pc[t] = "write"
    /\ channel # NoFd /\ PeerAlive(channel)
    /\ wire' = [wire EXCEPT !.req = Append(@, [tag |-> "spawn_application",
                    appRoot |-> call[t].appRoot, user |-> call[t].user,
                    group |-> call[t].group, from |-> t])]
    /\ h' = [h EXCEPT ![t].wrote = TRUE]
    /\ pc' = [pc EXCEPT ![t] = "read"]
    /\ UNCHANGED <<lock, pid, channel, serverNeedsRestart, logFile, fdTable, procs,
                   loc, call, rx, result, ks, aborted>>

\* Line 247: the write fails: the descriptor is closed or the peer is gone.
WriteFailed(t) ==
    /\ pc[t] = "write"
    /\ channel = NoFd \/ ~PeerAlive(channel)
    /\ CatchExchange(t, Exception("SystemException"), "write")
    /\ wire' = [wire EXCEPT !.failed = TRUE]
    /\ UNCHANGED <<lock, pid, channel, logFile, fdTable, procs, loc, call,
                   rx, ks, aborted>>

\* How the response's fields are classified (history only).
ResponseShape(m) ==
    IF m.fields = <<>> THEN "nofields"
    ELSE IF IsDecimal(m.fields[1]) THEN "wellformed" ELSE "malformed"

\* Line 251 without its declaration: the parsed pid is assigned to the
\* member pid instead of a local.
ReadOk_clobberPid(t) ==
    /\ pc[t] = "read"
    /\ wire.resp # <<>>
    /\ Head(wire.resp).fields # <<>>
    /\ LET m == Head(wire.resp)
       IN  /\ rx' = [rx EXCEPT ![t] = [pid |-> Atoi(m.fields[1]), fd |-> m.fd]]
           /\ pid' = Atoi(m.fields[1])
           /\ h' = [h EXCEPT ![t].resp = ResponseShape(m), ![t].respFor = m.for,
                             ![t].respFields = m.fields, ![t].respFd = m.fd]
    /\ wire' = [wire EXCEPT !.resp = Tail(@)]
    /\ pc' = [pc EXCEPT ![t] = "readfd"]
    /\ UNCHANGED <<lock, channel, serverNeedsRestart, logFile, fdTable, procs,
                   loc, call, result, ks, aborted>>

\* Lines 248, 251: channel.read(args) returns a message with a first field;
\* pid = atoi(args.front().c_str()).
ReadOk(t) ==
    /\ pc[t] = "read"
    /\ wire.resp # <<>>
    /\ Head(wire.resp).fields # <<>>
    /\ LET m == Head(wire.resp)
       IN  /\ rx' = [rx EXCEPT ![t] = [pid |-> Atoi(m.fields[1]), fd |-> m.fd]]
           /\ h' = [h EXCEPT ![t].resp = ResponseShape(m), ![t].respFor = m.for,
                             ![t].respFields = m.fields, ![t].respFd = m.fd]
    /\ wire' = [wire EXCEPT !.resp = Tail(@)]
    /\ pc' = [pc EXCEPT ![t] = "readfd"]
    /\ UNCHANGED <<lock, pid, channel, serverNeedsRestart, logFile, fdTable, procs,
                   loc, call, result, ks, aborted>>

\* Lines 248, 251: channel.read(args) returns a message without fields:
\* args.front() of an empty vector is undefined; the call reads some value
\* as the pid, or the process crashes.
ReadNoFields(t) ==
    /\ pc[t] = "read"
    /\ wire.resp # <<>>
    /\ Head(wire.resp).fields = <<>>
    /\ wire' = [wire EXCEPT !.resp = Tail(@)]
    /\ h' = [h EXCEPT ![t].resp = "nofields", ![t].respFor = Head(wire.resp).for,
                      ![t].respFd = Head(wire.resp).fd]
    /\ \/ /\ \E g \in GarbagePids :
               rx' = [rx EXCEPT ![t] = [pid |-> g, fd |-> Head(wire.resp).fd]]
          /\ pc' = [pc EXCEPT ![t] = "readfd"]
          /\ UNCHANGED aborted
       \/ /\ aborted' = TRUE
          /\ UNCHANGED <<rx, pc>>
    /\ UNCHANGED <<lock, pid, channel, serverNeedsRestart, logFile, fdTable, procs,
                   loc, call, result, ks>>

\* Lines 248-250: channel.read() returns false, the peer closed without a
\* message: IOException("The spawn server has exited unexpectedly.").
ReadEof(t) ==
    /\ pc[t] = "read"
    /\ wire.resp = <<>>
    /\ channel = NoFd \/ ~PeerAlive(channel)
    /\ CatchExchange(t, Exception("IOException"), "eof")
    /\ wire' = [wire EXCEPT !.failed = TRUE]
    /\ UNCHANGED <<lock, pid, channel, logFile, fdTable, procs, loc, call,
                   rx, ks, aborted>>

\* Lines 252-253: channel.readFileDescriptor() returns the passed
\* descriptor; the Application is built and returned.
ReadFdOk(t) ==
    /\ pc[t] = "readfd"
    /\ rx[t].fd # NoFd
    /\ result' = [result EXCEPT ![t] = Application(call[t].appRoot, rx[t].pid, rx[t].fd)]
    /\ pc' = [pc EXCEPT ![t] = "unlock"]
    /\ UNCHANGED <<lock, pid, channel, serverNeedsRestart, logFile, fdTable, procs,
                   wire, loc, call, rx, h, ks, aborted>>

\* Line 252: no descriptor was attached: readFileDescriptor() throws.
ReadFdFailed(t) ==
    /\ pc[t] = "readfd"
    /\ rx[t].fd = NoFd
    /\ CatchExchange(t, Exception("IOException"), "readfd")
    /\ wire' = [wire EXCEPT !.failed = TRUE]
    /\ UNCHANGED <<lock, pid, channel, logFile, fdTable, procs, loc, call,
                   rx, ks, aborted>>

\* The scoped_lock is destroyed while spawn() returns or unwinds; the
\* outcome reaches the caller and the locals of the call are gone.
Unlock(t) ==
    /\ pc[t] = "unlock"
    /\ lock' = IF lock = t THEN NoThread ELSE lock
    /\ ks' = IF result[t].kind = "handle" THEN "ok"
             ELSE IF h[t].stage = 1 THEN "failed" ELSE "none"
    /\ pc' = [pc EXCEPT ![t] = "idle"]
    /\ result' = [result EXCEPT ![t] = NoResult]
    /\ h' = [h EXCEPT ![t] = NoHistory]
    /\ call' = [call EXCEPT ![t] = NoCall]
    /\ rx' = [rx EXCEPT ![t] = NoRx]
    /\ loc' = [loc EXCEPT ![t] = NoLocals]
    /\ UNCHANGED <<pid, channel, serverNeedsRestart, logFile, fdTable, procs, wire,
                   aborted>>

\* ------------------------------------------------------------ environment
NoSpawnRunning == \A t \in Threads : pc[t] = "idle"

\* The helper process is killed from outside.
Kill(p) ==
    /\ procs[p].state = "running"
    /\ procs' = [procs EXCEPT ![p].state = "zombie"]
    /\ ks' = IF ks = "ok" /\ NoSpawnRunning /\ pid = p THEN "killed" ELSE ks
    /\ UNCHANGED <<pc, lock, pid, channel, serverNeedsRestart, logFile, fdTable,
                   wire, loc, call, rx, result, h, aborted>>

\* The helper reads end of file on its standard input and exits.
HelperExit(p) ==
    /\ procs[p].state = "running"
    /\ procs[p].peer = NoFd
    /\ procs' = [procs EXCEPT ![p].state = "zombie"]
    /\ UNCHANGED <<pc, lock, pid, channel, serverNeedsRestart, logFile, fdTable,
                   wire, loc, call, rx, result, h, ks, aborted>>

\* Lines 121-124: execlp() failed in the child; it reports on stderr and
\* calls _exit(1).
ExecFailedExit(p) ==
    /\ procs[p].state = "running"
    /\ procs[p].image = "failed"
    /\ procs' = [procs EXCEPT ![p].state = "zombie"]
    /\ UNCHANGED <<pc, lock, pid, channel, serverNeedsRestart, logFile, fdTable,
                   wire, loc, call, rx, result, h, ks, aborted>>

\* The helper answers the oldest request with some response.
Respond(p) ==
    /\ procs[p].state = "running"
    /\ procs[p].image = "helper"
    /\ procs[p].peer # NoFd
    /\ wire.req # <<>>
    /\ \E m \in Responses :
         wire' = [wire EXCEPT !.req = Tail(@),
                    !.resp = Append(@, [fields |-> m.fields, fd |-> m.fd,
                                        for |-> Head(wire.req).from])]
    /\ UNCHANGED <<pc, lock, pid, channel, serverNeedsRestart, logFile, fdTable,
                   procs, loc, call, rx, result, h, ks, aborted>>

\* ------------------------------------------------------------------ Next
Next ==
    /\ ~aborted
    /\ \/ \E a \in Actors : RestartBegin(a)
       \/ \E a \in Actors : RestartWait(a)
       \/ \E a \in Actors : SocketpairOk(a)
       \/ \E a \in Actors : SocketpairFailed(a)
       \/ \E a \in Actors : OpenLogOk(a)
       \/ \E a \in Actors : OpenLogFailed(a)
       \/ \E a \in Actors : ForkOk(a)
       \/ \E a \in Actors : ForkFailed(a)
       \/ \E t \in Threads : Call(t)
       \/ \E t \in Threads : Acquire(t)
       \/ \E t \in Threads : WriteOk(t)
       \/ \E t \in Threads : WriteFailed(t)
       \/ \E t \in Threads : ReadOk(t)
       \/ \E t \in Threads : ReadNoFields(t)
       \/ \E t \in Threads : ReadEof(t)
       \/ \E t \in Threads : ReadFdOk(t)
       \/ \E t \in Threads : ReadFdFailed(t)
       \/ \E t \in Threads : Unlock(t)
       \/ \E p \in HelperPids : Kill(p)
       \/ \E p \in HelperPids : HelperExit(p)
       \/ \E p \in HelperPids : ExecFailedExit(p)
       \/ \E p \in HelperPids : Respond(p)
    /\ UNCHANGED httpVars

Spec == Init /\ [][Next]_vars

\* A thread that is running restartServer() or the body of spawn() takes its
\* next step: none of these calls waits for anything but the helper.
RestartStep(a) ==
    /\ \/ RestartBegin(a) \/ RestartWait(a) \/ SocketpairOk(a) \/ SocketpairFailed(a)
       \/ OpenLogOk(a) \/ OpenLogFailed(a) \/ ForkOk(a) \/ ForkFailed(a)
    /\ UNCHANGED httpVars

SpawnStep(t) ==
    /\ \/ WriteOk(t) \/ WriteFailed(t) \/ ReadOk(t) \/ ReadNoFields(t) \/ ReadEof(t)
       \/ ReadFdOk(t) \/ ReadFdFailed(t) \/ Unlock(t)
    /\ UNCHANGED httpVars

\* Threads keep running; the lock of line 226 is handed out fairly; the
\* helper answers every request, and exits once its channel is closed or its
\* execlp() has failed.  Nothing obliges callers to call or anyone to kill.
Fairness ==
    /\ \A a \in Actors : WF_vars(RestartStep(a))
    /\ \A t \in Threads : WF_vars(SpawnStep(t))
    /\ \A t \in Threads : SF_vars(Acquire(t) /\ UNCHANGED httpVars)
    /\ \A p \in HelperPids : WF_vars(Respond(p) /\ UNCHANGED httpVars)
    /\ \A p \in HelperPids : WF_vars(HelperExit(p) /\ UNCHANGED httpVars)
    /\ \A p \in HelperPids : WF_vars(ExecFailedExit(p) /\ UNCHANGED httpVars)

SpecFair == Init /\ [][Next]_vars /\ Fairness

\* A fresh HttpStatusExtractor and some response to feed to it in chunks.
InitHttp ==
    /\ pc = [a \in Actors |-> IF a = Ctor THEN "rs_begin" ELSE "idle"]
    /\ lock = NoThread
    /\ pid = NoPid
    /\ channel = NoFd
    /\ serverNeedsRestart = TRUE
    /\ logFile = ""
    /\ fdTable = [f \in FdNums |-> "free"]
    /\ procs = [p \in HelperPids |-> NoProc]
    /\ wire = EmptyWire
    /\ loc = [a \in Actors |-> NoLocals]
    /\ call = [t \in Threads |-> NoCall]
    /\ rx = [t \in Threads |-> NoRx]
    /\ result = [a \in Actors |-> NoResult]
    /\ h = [a \in Actors |-> NoHistory]
    /\ ks = "none"
    /\ aborted = FALSE
    /\ HttpFresh
    /\ response \in HttpResponses

NextHttp ==
    /\ \E k \in 1..(Len(response) - fedLen) : Feed(k)
    /\ UNCHANGED spawnVars

SpecHttp == InitHttp /\ [][NextHttp]_vars

\* ------------------------------------------------------------ properties
RestartPcs == {"rs_begin", "rs_wait", "rs_socketpair", "rs_log", "rs_fork"}
InRestart(a) == pc[a] \in RestartPcs
\* The request is written; the response and its descriptor are not yet read.
InExchange(t) == pc[t] \in {"read", "readfd"}
TransportErrors == {"IOException", "SystemException"}
\* The error restartServer() throws for each reason of failure.
RestartErrorOf(why) == IF why = "log" THEN "IOException" ELSE "SystemException"
\* restartServer() of actor a has just failed; its caller still holds the lock.
RestartJustFailed(a) == h[a].restart = "failed" /\ pc[a] \in {"unlock", "ctor_failed"}
\* The object exists and no spawn() is past the lock.
Quiescent == pc[Ctor] = "constructed" /\ \A t \in Threads : pc[t] \in {"idle", "lock"}

\* C1: at most one exchange is in flight on the helper channel: a thread
\* that is about to write or has written a request excludes any other thread
\* from being in a restart, at the write or in an exchange, and the channel
\* never carries more than one message.
C1_SingleFlight ==
    /\ \A t, u \in Threads :
         (t # u /\ pc[t] \in {"write", "read", "readfd"})
            => ~(InRestart(u) \/ pc[u] = "write" \/ InExchange(u))
    /\ Cardinality({t \in Threads : InExchange(t)}) <= 1
    /\ Len(wire.req) + Len(wire.resp) <= 1

C1_Witness ==
    \E t, u \in Threads :
        /\ t # u
        /\ pc[t] = "read" /\ Len(wire.req) = 1
        /\ pc[u] = "lock"

\* C2 (as claimed): the first spawn() after the helper was killed between
\* two requests returns a worker handle after restarting the helper, unless
\* the restart failed or the helper answered incorrectly.
C2_KilledHelperTransparent ==
    \A t \in Threads :
        (/\ pc[t] = "unlock"
         /\ h[t].stage = 1
         /\ h[t].restart # "failed"
         /\ h[t].resp \notin {"malformed", "nofields"}
         /\ h[t].fail # "readfd")
        => (result[t].kind = "handle" /\ h[t].restart = "ok")

\* C2 (amended): the first spawn() after the helper was killed between two
\* requests performs no restart, fails with a transport error and leaves
\* serverNeedsRestart set; the spawn() after that one restarts the helper
\* before it writes, and returns a worker handle when that restart succeeds
\* and the new helper answers with a decimal pid and a descriptor.
C2_KilledHelperNextCallFails ==
    \A t \in Threads :
        /\ (pc[t] = "unlock" /\ h[t].stage = 1)
              => /\ result[t].kind \in TransportErrors
                 /\ h[t].restart = "no"
                 /\ serverNeedsRestart
        /\ (h[t].stage = 1 => pc[t] \in {"write", "unlock"})
        /\ (h[t].stage = 2 /\ pc[t] \in {"write", "read", "readfd"})
              => h[t].restart = "ok"
        /\ (pc[t] = "unlock" /\ h[t].stage = 2 /\ h[t].restart = "ok"
               /\ h[t].resp = "wellformed" /\ h[t].fail = "none")
              => result[t].kind = "handle"

C2_Witness ==
    \E t \in Threads :
        /\ pc[t] = "unlock"
        /\ h[t].stage = 2
        /\ h[t].restart = "ok"
        /\ result[t].kind = "handle"

\* C3: when the exchange of a spawn() call fails (write fails, the helper
\* closes without a message, reading the descriptor fails), then as the
\* error leaves spawn() serverNeedsRestart is true and the error is the
\* outcome of that same call.
C3_ExchangeFailureSetsNeedsRestart ==
    \A t \in Threads :
        (pc[t] = "unlock" /\ h[t].fail # "none")
        => /\ serverNeedsRestart
           /\ result[t].kind = (IF h[t].fail = "write" THEN "SystemException"
                                                       ELSE "IOException")
           /\ result[t].cause = "none"

C3_Witness ==
    \E t \in Threads :
        /\ pc[t] = "unlock"
        /\ h[t].fail = "readfd"
        /\ ~h[t].entryNR

\* C4: a response without fields, or whose first field is not a decimal
\* process id, makes spawn() fail with a transport error, sets
\* serverNeedsRestart and yields no worker handle.
C4_MalformedResponseRejected ==
    \A t \in Threads :
        (pc[t] = "unlock" /\ h[t].resp \in {"malformed", "nofields"})
        => /\ result[t].kind \in TransportErrors
           /\ serverNeedsRestart

\* C5: a spawn() entered with serverNeedsRestart whose restart fails raises
\* RestartException carrying the error of restartServer(), has written no
\* request, and leaves serverNeedsRestart true.
C5_RestartFailureWrapped ==
    \A t \in Threads :
        (pc[t] = "unlock" /\ h[t].restart = "failed")
        => /\ h[t].entryNR
           /\ result[t].kind = "RestartException"
           /\ result[t].cause = RestartErrorOf(h[t].cause)
           /\ ~h[t].wrote
           /\ h[t].fail = "none"
           /\ serverNeedsRestart

C5_Witness ==
    \E t \in Threads :
        /\ pc[t] = "unlock"
        /\ h[t].restart = "failed"
        /\ h[t].cause = "log"
        /\ result[t].kind = "RestartException"

\* C6: RestartException is raised only by a spawn() call whose own restart
\* failed; a failed exchange is reported as the plain error, and a failed
\* restart in the constructor is reported as the plain error of
\* restartServer().
C6_WrapperOnlyFromSpawnRestart ==
    /\ \A t \in Threads :
         /\ (pc[t] = "unlock" /\ result[t].kind = "RestartException")
               => (h[t].entryNR /\ h[t].restart = "failed" /\ h[t].fail = "none")
         /\ (pc[t] = "unlock" /\ h[t].fail # "none")
               => (result[t].kind \in TransportErrors /\ result[t].cause = "none")
    /\ pc[Ctor] = "ctor_failed"
          => /\ result[Ctor].kind = RestartErrorOf(h[Ctor].cause)
             /\ result[Ctor].cause = "none"

C6_Witness ==
    /\ pc[Ctor] = "ctor_failed"
    /\ h[Ctor].cause = "log"
    /\ result[Ctor].kind = "IOException"

\* C7: after a restartServer() that failed, none of the descriptors it
\* opened (the socket pair, the log file handle) is still open.
C7_FailedRestartClosesDescriptors ==
    \A a \in Actors :
        RestartJustFailed(a) => \A f \in h[a].opened : fdTable[f] = "free"

\* C8: whenever no spawn() and no restart is in progress, pid is 0 exactly
\* when the channel is not bound.
C8_PidIffChannel ==
    Quiescent => (pid = NoPid <=> channel = NoFd)

C8_Witness ==
    /\ Quiescent
    /\ pid = NoPid
    /\ channel = NoFd
    /\ fdTable # [f \in FdNums |-> "free"]

\* C9: when restartServer() fails, for whatever reason and whether or not
\* a helper was tracked before, pid is 0 and serverNeedsRestart is true.
C9_FailedRestartState ==
    \A a \in Actors :
        RestartJustFailed(a) => (pid = NoPid /\ serverNeedsRestart)

C9_Witness ==
    \E t \in Threads :
        /\ RestartJustFailed(t)
        /\ h[t].tracked
        /\ h[t].cause = "fork"

\* C10: when the configured log file cannot be opened, restartServer()
\* fails with an IOException and that call forks nothing: no helper process
\* exists afterwards.
C10_LogFailureNoFork ==
    \A a \in Actors :
        h[a].cause = "log"
        => /\ RestartJustFailed(a)
           /\ ~h[a].forked
           /\ logFile # ""
           /\ result[a].kind = (IF a = Ctor THEN "IOException" ELSE "RestartException")
           /\ result[a].cause = (IF a = Ctor THEN "none" ELSE "IOException")
           /\ \A p \in HelperPids : procs[p].state = "free"

C10_Witness ==
    \E t \in Threads :
        /\ RestartJustFailed(t)
        /\ h[t].cause = "log"
        /\ h[t].tracked

\* C11: a spawn() that succeeds returns a handle with the appRoot of the
\* call, the process id written in the first field of the response to this
\* call's own request, and the descriptor attached to that response.
C11_HandleMatchesResponse ==
    \A t \in Threads :
        (pc[t] = "unlock" /\ result[t].kind = "handle")
        => /\ result[t].appRoot = call[t].appRoot
           /\ h[t].respFor = t
           /\ h[t].respFields # <<>>
           /\ IsDecimal(h[t].respFields[1])
           /\ result[t].pid = Atoi(h[t].respFields[1])
           /\ result[t].fd = h[t].respFd
           /\ result[t].fd \in ListenSockets

\* C12: when execlp() fails in the child, restartServer() still succeeds in
\* the parent (pid is the child, the channel is bound, serverNeedsRestart
\* is false, nothing is thrown); the request that follows on that channel
\* fails with a plain transport error, which sets serverNeedsRestart.
C12_ExecFailureSeenOnNextRequest ==
    /\ \A t \in Threads :
         /\ (pc[t] = "write" /\ h[t].execFailed)
               => /\ h[t].restart = "ok"
                  /\ pid \in HelperPids
                  /\ procs[pid].image = "failed"
                  /\ channel = loc[t].fds0
                  /\ ~serverNeedsRestart
         /\ (pc[t] = "unlock" /\ pid \in HelperPids /\ procs[pid].image = "failed")
               => /\ result[t].kind \in TransportErrors
                  /\ result[t].cause = "none"
                  /\ h[t].fail \in {"write", "eof"}
                  /\ serverNeedsRestart
    /\ h[Ctor].execFailed
          => (pc[Ctor] = "constructed" /\ result[Ctor].kind = "none")

C12_Witness ==
    \E t \in Threads :
        /\ pc[t] = "unlock"
        /\ h[t].execFailed
        /\ h[t].fail = "eof"
        /\ result[t].kind = "IOException"

\* C13: no request is written on a channel on which an exchange has failed:
\* the failure leaves serverNeedsRestart set, a call that finds it set is at
\* the write only after its restart succeeded, and a call whose exchange has
\* failed goes nowhere but out of spawn().
C13_NoWriteOnFailedChannel ==
    /\ wire.failed => serverNeedsRestart
    /\ \A t \in Threads :
         /\ pc[t] \in {"write", "read", "readfd"} => ~wire.failed
         /\ (pc[t] \in {"write", "read", "readfd"} /\ h[t].entryNR) => h[t].restart = "ok"
         /\ h[t].fail # "none" => (pc[t] = "unlock" /\ h[t].restart # "failed")

C13_Witness ==
    \E t \in Threads :
        /\ pc[t] = "read"
        /\ h[t].entryNR
        /\ h[t].tracked
        /\ h[t].restart = "ok"

\* C16: restartServer() closes the channel, then waits for the tracked
\* helper, then clears pid, and only then creates the socket pair and forks:
\* no helper process exists while the new one is set up, and there is never
\* more than one helper process.
C16_OldHelperReapedBeforeFork ==
    /\ \A a \in Actors :
         /\ pc[a] = "rs_wait" => (channel = NoFd /\ pid # NoPid)
         /\ pc[a] \in {"rs_socketpair", "rs_log", "rs_fork"}
               => (pid = NoPid /\ \A p \in HelperPids : procs[p].state = "free")
    /\ Cardinality({p \in HelperPids : procs[p].state # "free"}) <= 1

C16_Witness ==
    \E t \in Threads :
        /\ pc[t] = "rs_fork"
        /\ h[t].tracked

\* C17: when the child calls execlp(), exactly descriptors 0, 1 and 2 are
\* open: 0 is fds[1] of the fresh socket pair, 2 is the log file if one is
\* configured and the inherited stderr otherwise, 1 is a copy of 2.
C17_ChildDescriptorsAtExec ==
    \A p \in HelperPids :
        procs[p].state # "free"
        => /\ procs[p].sockIn \in FdNums
           /\ procs[p].table[STDIN_FILENO] = procs[p].sockIn
           /\ procs[p].table[STDERR_FILENO] =
                 (IF logFile # "" THEN procs[p].logIn ELSE STDERR_FILENO)
           /\ logFile # "" => procs[p].logIn \in FdNums
           /\ procs[p].table[STDOUT_FILENO] = procs[p].table[STDERR_FILENO]
           /\ \A f \in FdNums : procs[p].table[f] = NoFd

C17_Witness ==
    \E p \in HelperPids :
        /\ procs[p].state = "running"
        /\ procs[p].image = "helper"
        /\ logFile # ""
        /\ \E f \in FdNums : f # channel /\ fdTable[f] # "free"

\* C18: a spawn() entered with serverNeedsRestart false that succeeds
\* leaves pid, the channel binding and serverNeedsRestart as it found them.
C18_SuccessfulSpawnKeepsState ==
    \A t \in Threads :
        (pc[t] = "unlock" /\ ~h[t].entryNR /\ result[t].kind = "handle")
        => /\ pid = h[t].entryPid
           /\ channel = h[t].entryChan
           /\ ~serverNeedsRestart

C18_Witness ==
    \E t \in Threads :
        /\ pc[t] = "unlock"
        /\ ~h[t].entryNR
        /\ result[t].kind = "handle"
        /\ result[t].pid # pid

\* C19: whenever no spawn() and no restart is in progress and
\* serverNeedsRestart is false, a helper is tracked and the channel is bound
\* to an open socket; a spawn() at its write always has a bound channel.
C19_NoRestartNeededMeansBound ==
    /\ (Quiescent /\ ~serverNeedsRestart)
          => (pid \in HelperPids /\ channel \in FdNums /\ fdTable[channel] = "sock0")
    /\ \A t \in Threads : pc[t] = "write" => channel \in FdNums

C19_Witness ==
    /\ Quiescent
    /\ ~serverNeedsRestart
    /\ \E f \in FdNums : f # channel /\ fdTable[f] # "free"

\* ---------------------------------------------------- HttpStatusExtractor
\* All the chunks fed so far, concatenated.
FedData == SubSeq(response, 1, fedLen)

\* Some four consecutive bytes of the string are CR LF CR LF.
HasHeaderEnd(str) == \E i \in 0..(Len(str) - 4) : MatchAt(str, HeaderEnd, i)

\* Where the header ends: the position of the first CR LF CR LF.
HeaderEndPos(str) == CHOOSE i \in 0..(Len(str) - 4) :
    /\ MatchAt(str, HeaderEnd, i)
    /\ \A j \in 0..(i - 1) : ~MatchAt(str, HeaderEnd, j)

\* A line of the header, the first one or one after a line end, begins with
\* "Status: ".
HeaderHasStatus(str) ==
    \/ MatchAt(str, statusHeaderName, 0) /\ Len(statusHeaderName) <= HeaderEndPos(str)
    \/ \E i \in 0..(HeaderEndPos(str) - 2) :
          /\ MatchAt(str, CRLF \o statusHeaderName, i)
          /\ i + 2 + Len(statusHeaderName) <= HeaderEndPos(str)

\* C14: once the data fed contains the end of the header followed by part
\* of the body, a header without a "Status: " line leaves the status line at
\* its default "200 OK\r\n", whatever the body contains.
C14_StatusOnlyFromHeader ==
    (/\ fullHeaderReceived
     /\ Len(buffer) > HeaderEndPos(buffer) + 4
     /\ ~HeaderHasStatus(buffer))
        => statusLine = DefaultStatusLine

\* C15: until feed() has returned true, the buffer is the concatenation of
\* the chunks fed, and each call returns true exactly if that concatenation
\* contains CR LF CR LF.
C15_FeedFindsHeaderEnd ==
    ~fedAfterTrue =>
        /\ buffer = FedData
        /\ fedLen > 0 => feedRet = HasHeaderEnd(FedData)

\* feed() has just returned true for the first time, for a CR LF CR LF that
\* began in an earlier chunk and ended in this one.
C15_Witness ==
    /\ feedRet
    /\ ~fedAfterTrue
    /\ feedSplit

\* C20: every spawn() call of every thread eventually returns: a thread that
\* has called spawn() and waits for or holds the lock is eventually back
\* outside spawn().
C20_EverySpawnReturns ==
    \A t \in Threads : (pc[t] # "idle") ~> (pc[t] = "idle")

\* The same for the runs in which no read of a response without fields
\* brings the process down.
C20_ReturnsUnlessCrashed ==
    \A t \in Threads : (pc[t] # "idle") ~> (pc[t] = "idle" \/ aborted)

TypeOK ==
    /\ pid \in HelperPids \cup {NoPid, ForkError}
    /\ channel \in FdNums \cup {NoFd}
    /\ serverNeedsRestart \in BOOLEAN
    /\ lock \in Threads \cup {NoThread}

====
